---- MODULE Spec2Model ----
(***************************************************************************)
(* A model of finn-no/finance-lib (src/index.js): the amortization         *)
(* formula, its fee-adjusted wrapper, the bisection solver for the         *)
(* effective interest, the month-by-month payment plan and the calendar    *)
(* offset helper.                                                          *)
(*                                                                         *)
(* Numbers.  A JavaScript number is modelled by the exact rational it      *)
(* denotes: a record [neg, num, den] whose numerator and denominator are   *)
(* naturals of unbounded size, kept as little-endian sequences of limbs    *)
(* in base Base.  Every arithmetic operator of the code (+ - * /,          *)
(* Math.pow, Math.floor, Math.ceil, Math.round, Math.min, Math.abs, <) is  *)
(* evaluated exactly on these rationals; the rounding error of IEEE-754    *)
(* doubles (relative 2^-53 per operation) is not modelled.  The inputs     *)
(* the specifications draw are chosen so that no comparison or rounding    *)
(* step of the code sits on a tie that such an error could flip.           *)
(***************************************************************************)
EXTENDS Integers, Sequences, FiniteSets, TLC

VARIABLES
  pc,             \* control point of the call under way
  args,           \* the arguments of the call
  date,           \* the wall-clock date read by new Date(): [year, month]
  high,           \* effectiveInterest: upper end of the bracket
  low,            \* effectiveInterest: lower end of the bracket
  guess,          \* effectiveInterest: the current midpoint
  previousGuess,  \* effectiveInterest: the midpoint of the iteration before
  iterations,     \* effectiveInterest: bodies of the do-while executed so far
  remainder,      \* paymentPlanFromToday: the running remainder
  baseDownPayment,\* paymentPlanFromToday: the fee-less monthly payment
  plan,           \* paymentPlanFromToday: the entries produced so far
  ret             \* the value returned

vars == <<pc, args, date, high, low, guess, previousGuess, iterations,
          remainder, baseDownPayment, plan, ret>>

None == "none"

-----------------------------------------------------------------------------
(* Naturals of unbounded size: little-endian limb sequences, no leading    *)
(* zero limb, zero is the empty sequence.                                  *)

Base == 10 * 10 * 10

MaxSmall == Base * Base * Base

Force(f) == f \o <<>>

MaxOf(m, n) == IF m > n THEN m ELSE n

RECURSIVE BFromInt(_)
BFromInt(k) == IF k = 0 THEN <<>> ELSE <<k % Base>> \o BFromInt(k \div Base)

RECURSIVE BToInt(_)
BToInt(a) == IF a = <<>> THEN 0 ELSE a[1] + Base * BToInt(Tail(a))

\* a without its leading zero limbs
BTrim(a) ==
  LET n == Len(a)
      z == CHOOSE u \in 0..n : (u = n \/ a[n - u] # 0) /\ \A v \in 0..(u - 1) : a[n - v] = 0
  IN SubSeq(a, 1, n - z)

Digit(a, i) == IF i >= 1 /\ i <= Len(a) THEN a[i] ELSE 0

\* s holds limb sums in 0..2*Base-2: the carry into position i
\* (the nearest position below i that does not merely pass a carry on makes one)
CarryIn(s, i) ==
  LET u == CHOOSE u \in 1..i :
             (u = i \/ s[i - u] # Base - 1) /\ \A v \in 1..(u - 1) : s[i - v] = Base - 1
  IN u < i /\ s[i - u] >= Base

\* the number whose limb sums are s
AddCarry(s) ==
  BTrim(Force([i \in 1..Len(s) |-> (s[i] + IF CarryIn(s, i) THEN 1 ELSE 0) % Base]))

BAdd(a, b) ==
  AddCarry(Force([i \in 1..(MaxOf(Len(a), Len(b)) + 1) |-> Digit(a, i) + Digit(b, i)]))

\* d holds limb differences in -(Base-1)..Base-1: the borrow from position i
BorrowIn(d, i) ==
  LET u == CHOOSE u \in 1..i :
             (u = i \/ d[i - u] # 0) /\ \A v \in 1..(u - 1) : d[i - v] = 0
  IN u < i /\ d[i - u] < 0

\* the number whose limb differences are d
SubBorrow(d) ==
  BTrim(Force([i \in 1..Len(d) |-> (d[i] - (IF BorrowIn(d, i) THEN 1 ELSE 0)) % Base]))

\* a - b, for a >= b
BSub(a, b) == SubBorrow(Force([i \in 1..Len(a) |-> a[i] - Digit(b, i)]))

\* -1, 0, 1 as a < b, a = b, a > b
BCmp(a, b) ==
  IF Len(a) < Len(b) THEN -1
  ELSE IF Len(a) > Len(b) THEN 1
  ELSE LET n == Len(a)
           u == CHOOSE u \in 0..n :
                  (u = n \/ a[n - u] # b[n - u]) /\ \A v \in 0..(u - 1) : a[n - v] = b[n - v]
       IN IF u = n THEN 0 ELSE IF a[n - u] < b[n - u] THEN -1 ELSE 1

\* the sum of a[i] * b[k - i + 1] over i in lo..hi
RECURSIVE ConvSum(_, _, _, _, _)
ConvSum(a, b, k, lo, hi) ==
  IF lo > hi THEN 0
  ELSE IF lo = hi THEN a[lo] * b[k - lo + 1]
  ELSE ConvSum(a, b, k, lo, (lo + hi) \div 2) + ConvSum(a, b, k, (lo + hi) \div 2 + 1, hi)

\* limb j of the convolution entry c[i], zero outside c
ConvLimb(c, i, j) == IF i >= 1 /\ i <= Len(c) THEN (c[i] \div (Base ^ j)) % Base ELSE 0

\* the limbs of all convolution entries gathered by position: each below 4 * Base
MulLimbs(c) ==
  Force([k \in 1..Len(c) |->
     ConvLimb(c, k, 0) + ConvLimb(c, k - 1, 1) + ConvLimb(c, k - 2, 2) + ConvLimb(c, k - 3, 3)])

\* the number whose gathered limbs are t
MulCarry(t) ==
  BAdd(Force([k \in 1..Len(t) |-> t[k] % Base]),
       Force([k \in 1..(Len(t) + 1) |-> IF k = 1 THEN 0 ELSE t[k - 1] \div Base]))

BMul(a, b) ==
  IF a = <<>> \/ b = <<>> THEN <<>>
  ELSE IF a = <<1>> THEN b
  ELSE IF b = <<1>> THEN a
  ELSE MulCarry(MulLimbs(Force([k \in 1..(Len(a) + Len(b)) |->
          ConvSum(a, b, k, IF k > Len(b) THEN k - Len(b) + 1 ELSE 1,
                           IF k > Len(a) THEN Len(a) ELSE k)])))

BSquare(a) == BMul(a, a)

RECURSIVE BPow(_, _)
BPow(a, n) ==
  IF n = 0 THEN <<1>>
  ELSE IF n = 1 THEN a
  ELSE IF n % 2 = 1 THEN BMul(a, BPow(a, n - 1))
  ELSE BSquare(BPow(a, n \div 2))

IsSmall(a) == Len(a) <= 3

\* the largest q in lo..hi-1 with q * d <= n, given lo * d <= n < hi * d
RECURSIVE BQuotIn(_, _, _, _)
BQuotIn(n, d, lo, hi) ==
  IF hi - lo <= 1 THEN lo
  ELSE IF BCmp(BMul(BFromInt((lo + hi) \div 2), d), n) <= 0
  THEN BQuotIn(n, d, (lo + hi) \div 2, hi)
  ELSE BQuotIn(n, d, lo, (lo + hi) \div 2)

\* floor(n / d) as an integer, for quotients below MaxSmall
BQuot(n, d) ==
  IF IsSmall(n) /\ IsSmall(d) THEN BToInt(n) \div BToInt(d)
  ELSE IF BCmp(n, d) < 0 THEN 0
  ELSE BQuotIn(n, d, 1, MaxSmall)

RECURSIVE Gcd(_, _)
Gcd(a, b) == IF b = 0 THEN a ELSE Gcd(b, a % b)

ISqrt(n) == CHOOSE k \in 0..n : k * k <= n /\ (k + 1) * (k + 1) > n

-----------------------------------------------------------------------------
(* Numbers: exact rationals [neg, num, den], den > 0, zero never negative, *)
(* in lowest terms whenever numerator and denominator are below MaxSmall.  *)

\* n / d, with sign, divided through by g
Reduced(neg, n, d, g) == [neg |-> neg, num |-> BFromInt(n \div g), den |-> BFromInt(d \div g)]

ReduceSmall(neg, n, d) == Reduced(neg, n, d, Gcd(n, d))

RNorm(r) ==
  IF r.num = <<>> THEN [neg |-> FALSE, num |-> <<>>, den |-> <<1>>]
  ELSE IF IsSmall(r.num) /\ IsSmall(r.den)
  THEN ReduceSmall(r.neg, BToInt(r.num), BToInt(r.den))
  ELSE r

\* the number n / d, for integers n and d > 0
Num(n, d) ==
  RNorm([neg |-> n < 0, num |-> BFromInt(IF n < 0 THEN -n ELSE n), den |-> BFromInt(d)])

Zero == [neg |-> FALSE, num |-> <<>>, den |-> <<1>>]
One == [neg |-> FALSE, num |-> <<1>>, den |-> <<1>>]

RNeg(a) == IF a.num = <<>> THEN a ELSE [a EXCEPT !.neg = ~a.neg]

RAbs(a) == [a EXCEPT !.neg = FALSE]

Signed(neg, c) == IF neg THEN -c ELSE c

\* -1, 0, 1 as a < b, a = b, a > b
RCmp(a, b) ==
  IF a.neg /\ ~b.neg THEN -1
  ELSE IF ~a.neg /\ b.neg THEN 1
  ELSE Signed(a.neg, BCmp(BMul(a.num, b.den), BMul(b.num, a.den)))

RLt(a, b) == RCmp(a, b) < 0
RLe(a, b) == RCmp(a, b) <= 0
REq(a, b) == RCmp(a, b) = 0

\* an / dn + bn / dn, each numerator with its sign
AddScaled(aneg, an, bneg, bn, dn) ==
  RNorm([neg |-> IF aneg = bneg \/ BCmp(an, bn) >= 0 THEN aneg ELSE bneg,
         num |-> IF aneg = bneg THEN BAdd(an, bn)
                 ELSE IF BCmp(an, bn) >= 0 THEN BSub(an, bn) ELSE BSub(bn, an),
         den |-> dn])

RAdd(a, b) ==
  AddScaled(a.neg, BMul(a.num, b.den), b.neg, BMul(b.num, a.den), BMul(a.den, b.den))

RSub(a, b) == RAdd(a, RNeg(b))

RMul(a, b) ==
  RNorm([neg |-> a.neg # b.neg, num |-> BMul(a.num, b.num), den |-> BMul(a.den, b.den)])

\* a / b, for b # 0
RDiv(a, b) ==
  RNorm([neg |-> a.neg # b.neg, num |-> BMul(a.num, b.den), den |-> BMul(a.den, b.num)])

RMin(a, b) == IF RLt(b, a) THEN b ELSE a

RIsInt(a) == a.den = <<1>>

\* floor(a), given the quotient q of the magnitudes
FloorFrom(a, q) ==
  IF ~a.neg THEN q
  ELSE IF BCmp(BMul(BFromInt(q), a.den), a.num) = 0 THEN -q
  ELSE -(q + 1)

\* Math.floor, as an integer
Floor(a) == FloorFrom(a, BQuot(a.num, a.den))

\* Math.ceil, as an integer
Ceil(a) == -Floor(RNeg(a))

\* Math.round: the nearest integer, halves toward +infinity
Round(a) == Floor(RAdd(a, [neg |-> FALSE, num |-> <<1>>, den |-> <<2>>]))

\* the square root of a number in lowest terms whose terms are squares
RSqrt(a) == Num(ISqrt(BToInt(a.num)), ISqrt(BToInt(a.den)))

\* a^w for a natural w
PowWhole(a, w) == [neg |-> FALSE, num |-> BPow(a.num, w), den |-> BPow(a.den, w)]

\* a^e from a^floor(e): times sqrt a if the exponent e has a half
PowHalf(a, e, whole) == IF RIsInt(e) THEN RNorm(whole) ELSE RMul(whole, RSqrt(a))

\* Math.pow(a, e) for a > 0 and an exponent e >= 0 that is a whole number or
\* a whole number and a half (then a is the square of a rational)
PowNonNeg(a, e) == PowHalf(a, e, PowWhole(a, BQuot(e.num, e.den)))

Inverted(inv, a) == IF inv THEN [neg |-> a.neg, num |-> a.den, den |-> a.num] ELSE a

\* Math.pow(a, e) for a > 0; a negative exponent gives the reciprocal
Pow(a, e) == Inverted(e.neg, PowNonNeg(a, RAbs(e)))

-----------------------------------------------------------------------------
(* src/index.js                                                            *)

\* roundDecimals with the test on decimals turned round: rounding is always 1
roundDecimalsWhole(n, decimals) ==
  LET rounding == IF decimals # 0 THEN One ELSE Pow(Num(10, 1), Num(decimals, 1))
  IN RDiv(Num(Round(RMul(n, rounding)), 1), rounding)

\* roundDecimals(n, decimals): Math.round(n * rounding) / rounding
roundDecimals(n, decimals) ==
  LET rounding == IF decimals # 0 THEN Pow(Num(10, 1), Num(decimals, 1)) ELSE One
  IN RDiv(Num(Round(RMul(n, rounding)), 1), rounding)

\* _amortization({ loanAmount, rate, period })
_amortization(a) ==
  LET ratePerPeriod == RDiv(a.rate, Num(12, 1))
      buildNumerator(numInterestAccruals) ==
        RMul(ratePerPeriod, Pow(RAdd(One, ratePerPeriod), numInterestAccruals))
      numerator == buildNumerator(RMul(a.period, Num(12, 1)))
      denominator == RSub(Pow(RAdd(One, ratePerPeriod), RMul(a.period, Num(12, 1))), One)
      am == RMul(a.loanAmount, RDiv(numerator, denominator))
  IN roundDecimals(am, 2)

paymentsPerYear == 12

precision == 5

\* the limit one decimal finer than the code's
guessLimitFine == Pow(Num(10, 1), Num(-1 * (precision + 1), 1))

guessLimit == Pow(Num(10, 1), Num(-1 * precision, 1))

\* the midpoint taken without adding low back
NextGuessOfWidth(lo, hi) == RDiv(RSub(hi, lo), Num(2, 1))

\* guess = (high - low) / 2.0 + low
NextGuess(lo, hi) == RAdd(RDiv(RSub(hi, lo), Num(2, 1)), lo)

\* the provisional principal with its last exponent one short
ProvShort(a, g) ==
  RDiv(RDiv(RMul(RMul(a.monthlyPayment, g),
                 RSub(One, Pow(g, RMul(a.period, Num(paymentsPerYear, 1))))),
            RSub(One, g)),
       Pow(g, RMul(a.period, Num(paymentsPerYear, 1))))

\* the provisional principal of effectiveInterest's loop body at a guess g
Prov(a, g) ==
  RDiv(RDiv(RMul(RMul(a.monthlyPayment, g),
                 RSub(One, Pow(g, RMul(a.period, Num(paymentsPerYear, 1))))),
            RSub(One, g)),
       Pow(g, RAdd(RMul(a.period, Num(paymentsPerYear, 1)), One)))

MaxIterations == 20

\* one pass of the do-while of effectiveInterest: the body, then the test
EffectiveInterestStep ==
  /\ pc = "loop"
  /\ iterations < MaxIterations
  /\ previousGuess' = guess
  /\ guess' = NextGuess(low, high)
  /\ IF RLt(Prov(args, guess'), args.loanAmount)
     THEN high' = guess' /\ low' = low
     ELSE low' = guess' /\ high' = high
  /\ pc' = IF RLt(guessLimit, RAbs(RSub(guess', previousGuess'))) THEN "loop" ELSE "return"
  /\ iterations' = iterations + 1
  /\ UNCHANGED <<args, date, remainder, baseDownPayment, plan, ret>>

\* after the loop: the annual rate of the monthly factor found, 4 decimals
EffectiveInterestReturn ==
  /\ pc = "return"
  /\ LET foundRate == Pow(guess, Num(paymentsPerYear, 1))
     IN ret' = roundDecimals(RSub(foundRate, One), 4)
  /\ pc' = "done"
  /\ UNCHANGED <<args, date, high, low, guess, previousGuess, iterations,
                 remainder, baseDownPayment, plan>>

\* the locals of effectiveInterest at its entry
EffectiveInterestEntry(a) ==
  /\ pc = "loop"
  /\ args = a
  /\ high = Num(2, 1)
  /\ low = One
  /\ guess = Zero
  /\ previousGuess = Zero
  /\ iterations = 0
  /\ date = None /\ remainder = None /\ baseDownPayment = None /\ plan = None
  /\ ret = None

-----------------------------------------------------------------------------
(* Values of fee arrays: numbers, strings (sequences of one-character      *)
(* strings), null and undefined.  NaN is the number that is no number.     *)

NaN == [nan |-> TRUE]

JsNumber(r) == [t |-> "number", v |-> r]
JsString(s) == [t |-> "string", s |-> s]
JsNull == [t |-> "null"]
JsUndefined == [t |-> "undefined"]

IsDigit(c) == c \in {"0", "1", "2", "3", "4", "5", "6", "7", "8", "9"}

DigitValue(c) ==
  CASE c = "0" -> 0 [] c = "1" -> 1 [] c = "2" -> 2 [] c = "3" -> 3 [] c = "4" -> 4
    [] c = "5" -> 5 [] c = "6" -> 6 [] c = "7" -> 7 [] c = "8" -> 8 [] c = "9" -> 9

\* how many digits s holds from position i on
DigitRun(s, i) ==
  CHOOSE k \in 0..(Len(s) + 1 - i) :
    /\ \A j \in 0..(k - 1) : IsDigit(s[i + j])
    /\ (i + k > Len(s) \/ ~IsDigit(s[i + k]))

\* the value of the k digits of s from position i on
RECURSIVE DigitsValue(_, _, _)
DigitsValue(s, i, k) ==
  IF k = 0 THEN 0 ELSE 10 * DigitsValue(s, i, k - 1) + DigitValue(s[i + k - 1])

\* parseFloat of a string: leading blanks, a sign, digits, a point, digits;
\* NaN when no digit is found, the text after the number ignored
ParseFloatString(s) ==
  LET blanks == CHOOSE k \in 0..Len(s) :
                  /\ \A j \in 1..k : s[j] = " "
                  /\ (k = Len(s) \/ s[k + 1] # " ")
      signed == blanks < Len(s) /\ s[blanks + 1] \in {"-", "+"}
      negative == signed /\ s[blanks + 1] = "-"
      p == blanks + (IF signed THEN 2 ELSE 1)
      ni == DigitRun(s, p)
      point == p + ni <= Len(s) /\ s[p + ni] = "."
      nf == IF point THEN DigitRun(s, p + ni + 1) ELSE 0
      whole == Num(DigitsValue(s, p, ni), 1)
      fraction == RDiv(Num(DigitsValue(s, p + ni + 1, nf), 1), Pow(Num(10, 1), Num(nf, 1)))
      magnitude == RAdd(whole, fraction)
  IN IF ni + nf = 0 THEN NaN
     ELSE IF negative THEN RNeg(magnitude) ELSE magnitude

\* parseFloat(value): the value as a string, then parsed
parseFloat(value) ==
  CASE value.t = "number" -> value.v
    [] value.t = "string" -> ParseFloatString(value.s)
    [] OTHER -> NaN

\* isNumber(value): Number.isFinite(parseFloat(value))
isNumber(value) == parseFloat(value) # NaN

RECURSIVE Reduce(_, _)
Reduce(acc, arr) ==
  IF arr = <<>> THEN acc ELSE Reduce(RAdd(acc, parseFloat(Head(arr))), Tail(arr))

\* sumArray(arr): arr.filter(isNumber).reduce((acc, e) => acc += parseFloat(e), 0)
sumArray(arr) == Reduce(Zero, SelectSeq(arr, isNumber))

\* a destructured fee parameter, [] when the caller leaves it out
FeesOf(a, name) == IF name \in DOMAIN a THEN a[name] ELSE <<>>

\* amortizationWithFees with the principal fees added flat, like the period fees
amortizationWithFlatFees(a) ==
  RAdd(RAdd(_amortization([loanAmount |-> a.loanAmount, rate |-> a.rate, period |-> a.period]),
            sumArray(FeesOf(a, "principalFees"))),
       sumArray(FeesOf(a, "periodFees")))

\* amortizationWithFees({ loanAmount, rate, period, principalFees, periodFees })
amortizationWithFees(a) ==
  RAdd(_amortization([loanAmount |-> RAdd(a.loanAmount, sumArray(FeesOf(a, "principalFees"))),
                      rate |-> a.rate,
                      period |-> a.period]),
       sumArray(FeesOf(a, "periodFees")))

\* dateAtIndex with the quotient truncated toward zero instead of floored
dateAtIndexTruncating(i, d) ==
  LET offset == i + d.month
      yearsAhead == IF offset < 0 THEN -((-offset) \div 12) ELSE offset \div 12
      year == d.year + yearsAhead
      month == offset - (yearsAhead * 12)
  IN [year |-> year, month |-> month]

\* dateAtIndex(i, d), d's getFullYear() and getMonth() being d.year and d.month
dateAtIndex(i, d) ==
  LET offset == i + d.month
      yearsAhead == offset \div 12
      year == d.year + yearsAhead
      month == offset - (yearsAhead * 12)
  IN [year |-> year, month |-> month]

\* a length rounded up instead of down
ToLengthUp(months) == IF RLe(months, Zero) THEN 0 ELSE Ceil(months)

\* the length Array.from gives { length: months }: whole, never negative
ToLength(months) == IF RLe(months, Zero) THEN 0 ELSE Floor(months)

\* the callback with the remainder reduced by the payment before Math.ceil
PlanEntryUnrounded(a, i, rem, base, d) ==
  LET monthlyRate == RDiv(a.rate, Num(12, 1))
      feesPaid == RAdd(sumArray(FeesOf(a, "periodFees")),
                       IF i = 0 THEN sumArray(FeesOf(a, "principalFees")) ELSE Zero)
      interest == Num(Floor(RMul(rem, monthlyRate)), 1)
      payment == RMin(RSub(base, interest), rem)
      at == dateAtIndex(i + 1, d)
  IN [downPayment |-> Num(Ceil(payment), 1), feesPaid |-> feesPaid,
      remainder |-> RSub(rem, payment), interest |-> interest,
      year |-> at.year, month |-> at.month]

\* the callback of paymentPlanFromToday's Array.from at index i
PlanEntry(a, i, rem, base, d) ==
  LET monthlyRate == RDiv(a.rate, Num(12, 1))
      feesPaid == RAdd(sumArray(FeesOf(a, "periodFees")),
                       IF i = 0 THEN sumArray(FeesOf(a, "principalFees")) ELSE Zero)
      interest == Num(Floor(RMul(rem, monthlyRate)), 1)
      downPayment == Num(Ceil(RMin(RSub(base, interest), rem)), 1)
      at == dateAtIndex(i + 1, d)
  IN [downPayment |-> downPayment, feesPaid |-> feesPaid,
      remainder |-> RSub(rem, downPayment), interest |-> interest,
      year |-> at.year, month |-> at.month]

-----------------------------------------------------------------------------
(* The calls.                                                              *)

Dates == {[year |-> 1985, month |-> 9], [year |-> 2026, month |-> 10]}

\* paymentPlanFromToday, up to its Array.from
PaymentPlanStart ==
  /\ pc = "call"
  /\ args.fn = "paymentPlanFromToday"
  /\ remainder' = args.loanAmount
  /\ baseDownPayment' = _amortization(args)
  /\ date' \in Dates
  /\ plan' = <<>>
  /\ pc' = "entries"
  /\ UNCHANGED <<args, high, low, guess, previousGuess, iterations, ret>>

\* one call of the callback of Array.from
PaymentPlanEntry ==
  /\ pc = "entries"
  /\ Len(plan) < ToLength(RMul(args.period, Num(12, 1)))
  /\ LET e == PlanEntry(args, Len(plan), remainder, baseDownPayment, date)
     IN /\ remainder' = e.remainder
        /\ plan' = Append(plan, e)
  /\ UNCHANGED <<pc, args, date, high, low, guess, previousGuess, iterations,
                 baseDownPayment, ret>>

\* Array.from has made its last entry: the array is returned
PaymentPlanReturn ==
  /\ pc = "entries"
  /\ Len(plan) = ToLength(RMul(args.period, Num(12, 1)))
  /\ ret' = plan
  /\ pc' = "done"
  /\ UNCHANGED <<args, date, high, low, guess, previousGuess, iterations,
                 remainder, baseDownPayment, plan>>

\* a call of _amortization
Amortization ==
  /\ pc = "call"
  /\ args.fn = "_amortization"
  /\ ret' = _amortization(args)
  /\ pc' = "done"
  /\ UNCHANGED <<args, date, high, low, guess, previousGuess, iterations,
                 remainder, baseDownPayment, plan>>

\* a call of amortizationWithFees
AmortizationWithFees ==
  /\ pc = "call"
  /\ args.fn = "amortizationWithFees"
  /\ ret' = amortizationWithFees(args)
  /\ pc' = "done"
  /\ UNCHANGED <<args, date, high, low, guess, previousGuess, iterations,
                 remainder, baseDownPayment, plan>>

\* a call of dateAtIndex
DateAtIndex ==
  /\ pc = "call"
  /\ args.fn = "dateAtIndex"
  /\ ret' = dateAtIndex(args.i, args.d)
  /\ pc' = "done"
  /\ UNCHANGED <<args, date, high, low, guess, previousGuess, iterations,
                 remainder, baseDownPayment, plan>>

\* a call about to be made: no local of it is live yet
Entry(a) ==
  /\ pc = "call"
  /\ args = a
  /\ date = None
  /\ high = None /\ low = None /\ guess = None /\ previousGuess = None
  /\ iterations = 0
  /\ remainder = None /\ baseDownPayment = None /\ plan = None
  /\ ret = None

-----------------------------------------------------------------------------
(* The inputs the specifications draw.                                     *)

MaxYears == 2

MaxOffset == 30

Years == {Num(y, 1) : y \in 1..MaxYears}

Rates == {Num(3, 4), Num(3, 25), Num(3, 40), Num(197, 10000)}

LoanTerms(loans, rates, periods) ==
  {[loanAmount |-> l, rate |-> r, period |-> p] : l \in loans, r \in rates, p \in periods}

WithFn(fn, inputs) == {[f \in DOMAIN a \cup {"fn"} |-> IF f = "fn" THEN fn ELSE a[f]] : a \in inputs}

\* effectiveInterest on the payment _amortization gives
RoundTripInputs ==
  {[loanAmount |-> a.loanAmount, rate |-> a.rate, period |-> a.period,
    monthlyPayment |-> _amortization(a)] :
     a \in LoanTerms({Num(1000, 1), Num(100000, 1), Num(250000, 1)},
                     Rates \cup {Num(99, 100)},
                     Years \cup {Num(1, 4)})}

\* effectiveInterest on payments of any kind: none, the tests', far too large;
\* periods of no length and of negative length
EffectiveInputs ==
  {[loanAmount |-> l, monthlyPayment |-> m, period |-> p] :
     l \in {Num(17000, 1), Num(25000, 1)},
     m \in {Zero, Num(518, 1), Num(561, 1), Num(1000000, 1)},
     p \in Years \cup {Zero, Num(-1, 1)}}
  \cup {[loanAmount |-> Num(17000, 1), monthlyPayment |-> Num(518, 1), period |-> Num(5, 1)]}

FeeLists ==
  {<<>>,
   <<JsNumber(Num(1000, 1))>>,
   <<JsString(<<"1", "0", "0", "0">>), JsUndefined>>,
   <<JsNumber(Num(2000, 1)), JsNull, JsString(<<"1", ".", "5", "k">>)>>,
   <<JsString(<<"t", "e", "n">>), JsString(<<" ", "-", "5", "0">>), JsNumber(NaN)>>}

AmortizationInputs ==
  LoanTerms({Num(1, 10), Num(1, 1), Num(19000, 1), Num(20000, 1)},
            Rates, Years \cup {Num(5, 1), Num(1, 12)})

AmortizationWithFeesInputs ==
  {[loanAmount |-> a.loanAmount, rate |-> a.rate, period |-> a.period,
    principalFees |-> pf, periodFees |-> ef] :
     a \in LoanTerms({Num(19000, 1), Num(20000, 1)}, {Num(3, 40), Num(3, 4)},
                     Years \cup {Num(5, 1)}),
     pf \in FeeLists, ef \in FeeLists}
  \cup LoanTerms({Num(20000, 1)}, {Num(3, 40)}, {Num(5, 1)})

\* whole and fractional loans over whole years; a long loan at a high rate;
\* a month and a half, and four months and a half, at a rate whose monthly
\* growth factor 1089/1024 is a square; a loan with fees
PlanInputs ==
  LoanTerms({Num(100, 1), Num(1000, 1), Num(2001, 2)},
            {Num(3, 4), Num(3, 25), Num(3, 40)}, Years)
  \cup LoanTerms({Num(16, 1)}, {Num(3, 4)}, {Num(8, 1)})
  \cup LoanTerms({Num(100, 1), Num(1000, 1)}, {Num(195, 256)}, {Num(1, 8), Num(3, 8)})
  \cup {[loanAmount |-> Num(1000, 1), rate |-> Num(3, 25), period |-> Num(1, 1),
         principalFees |-> <<JsNumber(Num(1000, 1)), JsNull>>,
         periodFees |-> <<JsString(<<"1", "0", "0">>)>>]}

DateInputs ==
  {[i |-> i, d |-> [year |-> y, month |-> m]] :
     i \in (-MaxOffset)..MaxOffset, y \in {1985, 2026}, m \in 0..11}

-----------------------------------------------------------------------------
(* The specifications: one per function, and the library as a whole.       *)

InitRoundTrip == \E a \in RoundTripInputs : EffectiveInterestEntry(a)

InitEffective == \E a \in EffectiveInputs : EffectiveInterestEntry(a)

NextEffective == EffectiveInterestStep \/ EffectiveInterestReturn

SpecRoundTrip == InitRoundTrip /\ [][NextEffective]_vars

SpecEffective == InitEffective /\ [][NextEffective]_vars

InitAmortization ==
  \E a \in WithFn("_amortization", AmortizationInputs)
       \cup WithFn("amortizationWithFees", AmortizationWithFeesInputs) : Entry(a)

NextAmortization == Amortization \/ AmortizationWithFees

SpecAmortization == InitAmortization /\ [][NextAmortization]_vars

InitPlan == \E a \in WithFn("paymentPlanFromToday", PlanInputs) : Entry(a)

NextPlan == PaymentPlanStart \/ PaymentPlanEntry \/ PaymentPlanReturn

SpecPlan == InitPlan /\ [][NextPlan]_vars

InitDate == \E a \in WithFn("dateAtIndex", DateInputs) : Entry(a)

NextDate == DateAtIndex

SpecDate == InitDate /\ [][NextDate]_vars

Init == InitEffective \/ InitRoundTrip \/ InitAmortization \/ InitPlan \/ InitDate

Next == NextEffective \/ NextAmortization \/ NextPlan \/ NextDate

Spec == Init /\ [][Next]_vars

-----------------------------------------------------------------------------
(* What the properties below speak of.                                     *)

\* the domain of LoanTerms: a positive loan, a rate in (0,1), a positive period
InDomain(a) ==
  /\ RLt(Zero, a.loanAmount)
  /\ RLt(Zero, a.rate) /\ RLt(a.rate, One)
  /\ RLt(Zero, a.period)

Within(x, y, tolerance) == RLe(RAbs(RSub(x, y)), tolerance)

Tolerance == Num(3, 10000)

\* the annual rate that monthly compounding at rate / 12 amounts to
EffectiveRate(rate) == RSub(Pow(RAdd(One, RDiv(rate, Num(12, 1))), Num(12, 1)), One)

\* the remainder outstanding before entry i of the schedule p of the loan a
Before(p, i, a) == IF i = 1 THEN a.loanAmount ELSE p[i - 1].remainder

\* the call a with the amount x moved from loanAmount into principalFees
Shifted(a, x) ==
  [fn |-> a.fn, loanAmount |-> RSub(a.loanAmount, x), rate |-> a.rate, period |-> a.period,
   principalFees |-> <<JsNumber(x)>> \o FeesOf(a, "principalFees"),
   periodFees |-> FeesOf(a, "periodFees")]

Shifts == {Num(500, 1), Num(1000, 1), Num(-250, 1), Num(1, 2)}

-----------------------------------------------------------------------------
(* The properties.                                                         *)

C2_LastRemainderZero ==
  pc = "done" /\ InDomain(args) /\ RIsInt(args.loanAmount)
              /\ RIsInt(args.period) /\ RLe(One, args.period)
    => /\ ret[Len(ret)].remainder = Zero
       /\ ret[Len(ret)].downPayment = ret[Len(ret) - 1].remainder

\* C3: in the schedule returned for a loan in the domain, every entry's
\* remainder is the remainder before it less the entry's downPayment, and no
\* entry's remainder is above the one before it.
C3_RemainderChain ==
  pc = "done" /\ InDomain(args)
    => \A i \in 1..Len(ret) :
         /\ REq(ret[i].remainder, RSub(Before(ret, i, args), ret[i].downPayment))
         /\ RLe(ret[i].remainder, Before(ret, i, args))

C3_Witness ==
  /\ pc = "done"
  /\ Len(ret) = 12
  /\ args.loanAmount = Num(2001, 2) /\ args.rate = Num(3, 25)
  /\ ret[1].downPayment = Num(79, 1)
  /\ ret[1].remainder = Num(1843, 2)
  /\ \A i \in 2..Len(ret) : RLt(ret[i].remainder, ret[i - 1].remainder)

\* C4, as it holds: the schedule has floor(period * 12) entries, which is
\* period * 12 exactly only when that product is whole.
C4_LengthFloor ==
  pc = "done" /\ RLt(Zero, args.period)
    => Len(ret) = Floor(RMul(args.period, Num(12, 1)))

C4_Witness ==
  pc = "done" /\ args.period = Num(3, 8) /\ Len(ret) = 4

\* C4, as stated: the schedule has exactly period * 12 entries.
C4_LengthExact ==
  pc = "done" /\ RLt(Zero, args.period)
    => Num(Len(ret), 1) = RMul(args.period, Num(12, 1))

C6_FeesFinanced ==
  pc = "done" /\ args.fn = "amortizationWithFees"
    => /\ ret = RAdd(_amortization(
                       [loanAmount |-> RAdd(args.loanAmount,
                                            sumArray(FeesOf(args, "principalFees"))),
                        rate |-> args.rate, period |-> args.period]),
                     sumArray(FeesOf(args, "periodFees")))
       /\ \A x \in Shifts : amortizationWithFees(Shifted(args, x)) = ret

C6_Witness ==
  /\ pc = "done" /\ args.fn = "amortizationWithFees"
  /\ args.loanAmount = Num(19000, 1) /\ args.rate = Num(3, 40) /\ args.period = Num(5, 1)
  /\ FeesOf(args, "principalFees") = <<JsNumber(Num(1000, 1))>>
  /\ FeesOf(args, "periodFees") = <<JsNumber(Num(1000, 1))>>
  /\ ret = Num(140076, 100)

\* C7: dateAtIndex(i, d) returns a month in 0..11 and the year that put it
\* exactly i months after month d.month of year d.year.
C7_CalendarPosition ==
  pc = "done" /\ args.fn = "dateAtIndex"
    => /\ ret.month \in 0..11
       /\ ret.year * 12 + ret.month = args.d.year * 12 + args.d.month + args.i

C7_Witness ==
  /\ pc = "done" /\ args.fn = "dateAtIndex"
  /\ args.i = -11 /\ args.d.month = 9
  /\ ret = [year |-> args.d.year - 1, month |-> 10]

\* C8, as stated: no entry's downPayment is above the remainder before it,
\* and no entry's remainder is negative, whole loan or not.
C8_NeverOverpays ==
  pc = "done" /\ InDomain(args)
    => \A i \in 1..Len(ret) :
         /\ RLe(ret[i].downPayment, Before(ret, i, args))
         /\ RLe(Zero, ret[i].remainder)

\* C9: the do-while of effectiveInterest is left after its 17th pass, never
\* before and never later, whatever the loan, the payment and the period.
C9_SeventeenPasses ==
  /\ pc = "loop" => iterations < 17
  /\ pc \in {"return", "done"} => iterations = 17

C9_Witness ==
  /\ pc = "return" /\ iterations = 17
  /\ args.period = Zero
  /\ Within(guess, previousGuess, guessLimit)

====
